---- MODULE Spec2Model ----
(***************************************************************************)
(* Model of sweep_filenames.py: template_regex, group_files_by_imageset    *)
(* and find_matching_images.                                               *)
(*                                                                         *)
(* A Python string is a sequence of one-character strings, so              *)
(* "a_1.x" is <<"a", "_", "1", ".", "x">>.  The value None is the          *)
(* one-element sequence <<"None">>, which no string of characters equals.  *)
(* In the lists of group_files_by_imageset, whose other members are the    *)
(* non-negative integers int(digits), None is the integer NoneIndex.       *)
(*                                                                         *)
(* File names may hold a newline, which the regular expressions' "." does  *)
(* not match, and a "%", which the formatting of line 102 interprets; a    *)
(* base name holds no "/".                                                 *)
(***************************************************************************)
EXTENDS Integers, Sequences, FiniteSets, TLC

VARIABLES
    pc,                 \* position of the running call
    filename,           \* template_regex's argument / find_matching_images' base name
    result,             \* the pair returned by template_regex
    filenames,          \* group_files_by_imageset's argument
    template,           \* group_files_by_imageset's list of (key, index) pairs
    matched,            \* group_files_by_imageset's dictionary
    image_name,         \* find_matching_images' argument
    directory,          \* find_matching_images' directory
    files_in_directory, \* the listing os.listdir returned
    matching_images,    \* find_matching_images' result list
    fs,                 \* the file system: directory -> set of entry names
    listings,           \* number of os.listdir calls the running call has made
    writes,             \* number of changes a concurrent writer has made
    exception           \* the exception the running call ended with

vars == <<pc, filename, result, filenames, template, matched, image_name,
          directory, files_in_directory, matching_images, fs, listings,
          writes, exception>>

(***************************************************************************)
(* Bounds                                                                  *)
(***************************************************************************)
MaxLen == 5         \* longest file name given to template_regex alone
MaxNameLen == 3     \* longest base name given to find_matching_images
MaxGroupLen == 2    \* longest file name given to group_files_by_imageset
MaxList == 2        \* longest list given to group_files_by_imageset
MaxIndex == 2       \* largest image index of the files put in a directory
MaxWrites == 2      \* changes the concurrent writer makes during one call

Alphabet == {"a", "_", ".", "0", "1", "#", "\n"}
FindAlphabet == {"a", "_", ".", "1", "%"}
GroupAlphabet == {".", "0", "1"}
Digits == {"0", "1", "2", "3", "4", "5", "6", "7", "8", "9"}

None == <<"None">>
NoneIndex == -1

\* the value of "exception" while no exception has been raised
NoException == ""

RECURSIVE Names(_, _)
Names(alphabet, n) ==
    IF n = 0 THEN {<<>>}
    ELSE LET shorter == Names(alphabet, n - 1)
         IN  shorter \cup {Append(s, c) : s \in shorter, c \in alphabet}

\* the names of at most n characters that are not empty
FileNames(alphabet, n) == Names(alphabet, n) \ {<<>>}

(***************************************************************************)
(* String helpers                                                          *)
(***************************************************************************)
Max(S) == CHOOSE x \in S : \A y \in S : y <= x
Min(S) == CHOOSE x \in S : \A y \in S : x <= y

\* s[::-1]
Reverse(s) == [i \in 1..Len(s) |-> s[Len(s) + 1 - i]]

\* s[a-1:b] in Python terms: the characters at positions a..b (1-based)
Slice(s, a, b) == IF a > b THEN <<>> ELSE SubSeq(s, a, b)

AllDigits(s, a, b) == \A i \in a..b : s[i] \in Digits

DigitValue(c) ==
    CASE c = "0" -> 0 [] c = "1" -> 1 [] c = "2" -> 2 [] c = "3" -> 3
      [] c = "4" -> 4 [] c = "5" -> 5 [] c = "6" -> 6 [] c = "7" -> 7
      [] c = "8" -> 8 [] c = "9" -> 9

DigitChar(n) ==
    CASE n = 0 -> "0" [] n = 1 -> "1" [] n = 2 -> "2" [] n = 3 -> "3"
      [] n = 4 -> "4" [] n = 5 -> "5" [] n = 6 -> "6" [] n = 7 -> "7"
      [] n = 8 -> "8" [] n = 9 -> "9"

\* int(digits) for a non-empty string of decimal digits
RECURSIVE IntOf(_)
IntOf(ds) ==
    IF Len(ds) = 0 THEN 0
    ELSE 10 * IntOf(SubSeq(ds, 1, Len(ds) - 1)) + DigitValue(ds[Len(ds)])

RECURSIVE Pow10(_)
Pow10(n) == IF n = 0 THEN 1 ELSE 10 * Pow10(n - 1)

\* str(j) for j >= 0
RECURSIVE Decimal(_)
Decimal(j) ==
    IF j < 10 THEN <<DigitChar(j)>>
    ELSE Append(Decimal(j \div 10), DigitChar(j % 10))

\* "%0<width>d" % j : decimal, padded on the left with zeros to at least width
RECURSIVE ZeroPad(_, _)
ZeroPad(s, width) == IF Len(s) >= width THEN s ELSE ZeroPad(<<"0">> \o s, width)

Format0d(width, j) == ZeroPad(Decimal(j), width)

\* a template that writes one placeholder whatever the number of digits
HashesSingle(n) == <<"#">>

\* ["#" for d in digits] joined
Hashes(n) == [i \in 1..n |-> "#"]

(***************************************************************************)
(* template_regex                                                          *)
(***************************************************************************)
\* joiners = [".", "_", ""]
joiners == << <<".">>, <<"_">>, <<>> >>

NoMatch == <<>>

\* the last position a (.*) that starts at position a can reach: "." matches
\* every character but the newline
LineEnd(r, a) ==
    Min({i \in a..Len(r) : r[i] = "\n"} \cup {Len(r) + 1}) - 1

\* re.match of ([0-9]+)\.(.*) at the start of r: the digit run is greedy, so
\* of the admissible lengths the longest is taken; the match need not reach
\* the end of r.
Match1(r) ==
    LET ms == {m \in 1..(Len(r) - 1) : AllDigits(r, 1, m) /\ r[m + 1] = "."}
    IN  IF ms = {} THEN NoMatch
        ELSE LET m == Max(ms)
             IN  <<Slice(r, 1, m), Slice(r, m + 2, LineEnd(r, m + 2))>>

\* re.match of (.*)\.([0-9]+)_(.*) : the leading (.*) is greedy and is tried
\* from its longest extent downwards, then the digit run likewise.
Match2(r) ==
    LET km == {<<k, m>> \in (0..LineEnd(r, 1)) \X (1..Len(r)) :
                 /\ k + m + 2 <= Len(r)
                 /\ r[k + 1] = "."
                 /\ AllDigits(r, k + 2, k + 1 + m)
                 /\ r[k + m + 2] = "_"}
    IN  IF km = {} THEN NoMatch
        ELSE LET k == Max({p[1] : p \in km})
                 m == Max({p[2] : p \in {q \in km : q[1] = k}})
             IN  <<Slice(r, 1, k), Slice(r, k + 2, k + 1 + m),
                   Slice(r, k + m + 3, LineEnd(r, k + m + 3))>>

\* re.match of (.*)\.([0-9]+)(.*)
Match3(r) ==
    LET km == {<<k, m>> \in (0..LineEnd(r, 1)) \X (1..Len(r)) :
                 /\ k + m + 1 <= Len(r)
                 /\ r[k + 1] = "."
                 /\ AllDigits(r, k + 2, k + 1 + m)}
    IN  IF km = {} THEN NoMatch
        ELSE LET k == Max({p[1] : p \in km})
                 m == Max({p[2] : p \in {q \in km : q[1] = k}})
             IN  <<Slice(r, 1, k), Slice(r, k + 2, k + 1 + m),
                   Slice(r, k + m + 2, LineEnd(r, k + m + 2))>>

\* compiled_patterns[j].match(rfilename), j counted from 1
patterns(j, r) ==
    CASE j = 1 -> Match1(r)
      [] j = 2 -> Match2(r)
      [] j = 3 -> Match3(r)

\* lines 32-39: exten, digits and prefix from the groups of pattern j
Parts(j, groups) ==
    IF Len(groups) = 3
    THEN [exten  |-> <<".">> \o Reverse(groups[1]),
          digits |-> Reverse(groups[2]),
          prefix |-> Reverse(groups[3]) \o joiners[j]]
    ELSE [exten  |-> <<>>,
          digits |-> Reverse(groups[1]),
          prefix |-> Reverse(groups[2]) \o joiners[j]]

\* the first pattern, in list order, that matches the reversed name; 0 if none
FirstMatch(f) ==
    LET js == {j \in 1..3 : patterns(j, Reverse(f)) # NoMatch}
    IN  IF js = {} THEN 0 ELSE Min(js)

\* the parts the loop of lines 26-42 ends with (only when a pattern matched)
MatchedParts(f) ==
    LET j == FirstMatch(f)
    IN  Parts(j, patterns(j, Reverse(f)))

template_regex(f) ==
    LET j == FirstMatch(f)
    IN  IF j = 0
        THEN [template |-> None, index |-> 0]
        ELSE LET p == Parts(j, patterns(j, Reverse(f)))
             IN  [template |-> p.prefix \o Hashes(Len(p.digits)) \o p.exten,
                  index    |-> IntOf(p.digits)]

(***************************************************************************)
(* Specification of template_regex called on its own                       *)
(***************************************************************************)
Idle == <<>>

InitInfer ==
    /\ pc = "infer"
    /\ filename \in FileNames(Alphabet, MaxLen)
    /\ result = [template |-> None, index |-> 0]
    /\ filenames = Idle /\ template = Idle /\ matched = Idle
    /\ image_name = Idle /\ directory = Idle /\ files_in_directory = {}
    /\ matching_images = Idle /\ fs = Idle /\ listings = 0 /\ writes = 0
    /\ exception = NoException

Infer ==
    /\ pc = "infer"
    /\ result' = template_regex(filename)
    /\ pc' = "inferred"
    /\ UNCHANGED <<filename, filenames, template, matched, image_name,
                   directory, files_in_directory, matching_images, fs, listings, writes, exception>>

NextInfer == Infer

SpecInfer == InitInfer /\ [][NextInfer]_vars

(***************************************************************************)
(* The "%" operator of lines 95 and 102: a format string applied to the    *)
(* single integer j, 0 <= j < 2^31.  The module is Python 2 source (the    *)
(* "global" statement of line 22 follows the assignments of lines 14 and   *)
(* 18, which Python 3 rejects), so the operator is the one of CPython 2.7  *)
(* on a str: every "%" starts a conversion specifier, the conversion "%"   *)
(* writes a "%", padded to the width, and takes no argument.  The result   *)
(* is the formatted string, or the name of the exception the operator      *)
(* raises, as a one-element sequence.  A written width above              *)
(* PY_SSIZE_T_MAX raises ValueError.  One above INT_MAX asks for a string  *)
(* of 2^31 characters or more: whether that succeeds depends on the memory *)
(* there is, so the operator takes it as its argument "fits" and gives     *)
(* either outcome, MemoryError or the string, which is not written out     *)
(* (LongString).  The conversions e and E add one to the precision in a C  *)
(* int (PyOS_double_to_string, "precision++"): at a precision of INT_MAX   *)
(* that is a signed overflow, which C leaves undefined, so the operator    *)
(* takes the outcome as its argument "wraps": the sum wraps to INT_MIN and *)
(* one significant digit is written, or it does not and the conversion is  *)
(* the string of 2^31 significant digits.                                  *)
(***************************************************************************)
TypeError == <<"TypeError">>
ValueError == <<"ValueError">>
OverflowError == <<"OverflowError">>
MemoryError == <<"MemoryError">>
FormatErrors == {TypeError, ValueError, OverflowError, MemoryError}

\* a string of 2^31 characters or more
LongString == <<"LongString">>

FormatFlags == {"-", "+", " ", "#", "0"}
LengthModifiers == {"h", "l", "L"}
INT_MAX == 2147483647
FORMATBUFLEN == 120
\* the decimal digits of 2^63 - 1
PY_SSIZE_T_MAX ==
    <<"9", "2", "2", "3", "3", "7", "2", "0", "3", "6", "8", "5", "4", "7", "7",
      "5", "8", "0", "7">>

\* "0" * n and " " * n
Zeros(n) == IF n <= 0 THEN <<>> ELSE [i \in 1..n |-> "0"]
Spaces(n) == IF n <= 0 THEN <<>> ELSE [i \in 1..n |-> " "]

\* the first position from i on whose character is not in S
RECURSIVE RunEnd(_, _, _)
RunEnd(s, i, S) ==
    IF i <= Len(s) /\ s[i] \in S THEN RunEnd(s, i + 1, S) ELSE i

\* the precision written at positions i..e-1, or -2 when it exceeds INT_MAX
RECURSIVE PrecisionOf(_, _, _, _)
PrecisionOf(s, i, e, acc) ==
    IF i >= e THEN acc
    ELSE IF acc > (INT_MAX - DigitValue(s[i])) \div 10 THEN -2
    ELSE PrecisionOf(s, i + 1, e, acc * 10 + DigitValue(s[i]))

\* a > b for numbers written with the same number of decimal digits
RECURSIVE DigitsAbove(_, _, _)
DigitsAbove(a, b, k) ==
    IF k > Len(a) THEN FALSE
    ELSE IF a[k] # b[k] THEN DigitValue(a[k]) > DigitValue(b[k])
    ELSE DigitsAbove(a, b, k + 1)

\* the number the digits ds write is above the one the digits max write
\* (neither has a leading zero)
Exceeds(ds, max) ==
    Len(ds) > Len(max) \/ (Len(ds) = Len(max) /\ DigitsAbove(ds, max, 1))

\* the conversion specifier that starts at position i, just after a "%":
\* flags, width, precision, length modifier, conversion character.  "used"
\* tells whether the argument has been consumed already; a width or a
\* precision written "*" consumes it.  The width is kept as its digits, which
\* start with a digit other than "0" (a "0" there is a flag).
ParseSpec(fmt, i, used) ==
    LET n     == Len(fmt)
        f     == RunEnd(fmt, i, FormatFlags)
        starW == f <= n /\ fmt[f] = "*"
        w     == IF starW THEN f + 1 ELSE RunEnd(fmt, f, Digits)
        used1 == used \/ starW
        width == IF starW THEN <<>> ELSE Slice(fmt, f, w - 1)
        dot   == w <= n /\ fmt[w] = "."
        starP == dot /\ w + 1 <= n /\ fmt[w + 1] = "*"
        p     == IF ~dot THEN w
                 ELSE IF starP THEN w + 2
                 ELSE RunEnd(fmt, w + 1, Digits)
        prec  == IF ~dot \/ starP THEN -1 ELSE PrecisionOf(fmt, w + 1, p, 0)
        c     == IF p <= n /\ fmt[p] \in LengthModifiers THEN p + 1 ELSE p
    IN  IF i <= n /\ fmt[i] = "(" THEN [error |-> TypeError]
        ELSE IF starW /\ used THEN [error |-> TypeError]
        ELSE IF Exceeds(width, PY_SSIZE_T_MAX) THEN [error |-> ValueError]
        ELSE IF starP /\ used1 THEN [error |-> TypeError]
        ELSE IF prec = -2 THEN [error |-> ValueError]
        ELSE IF c > n THEN [error |-> ValueError]
        ELSE [error |-> <<>>,
              flags |-> {fmt[k] : k \in i..(f - 1)},
              starW |-> starW,
              width |-> width,
              starP |-> starP,
              prec  |-> prec,
              ch    |-> fmt[c],
              next  |-> c + 1,
              used  |-> used1 \/ starP]

BaseDigit(n, upper) ==
    IF n < 10 THEN DigitChar(n)
    ELSE CASE n = 10 -> IF upper THEN "A" ELSE "a"
           [] n = 11 -> IF upper THEN "B" ELSE "b"
           [] n = 12 -> IF upper THEN "C" ELSE "c"
           [] n = 13 -> IF upper THEN "D" ELSE "d"
           [] n = 14 -> IF upper THEN "E" ELSE "e"
           [] n = 15 -> IF upper THEN "F" ELSE "f"

\* j written in the given base
RECURSIVE Based(_, _, _)
Based(j, base, upper) ==
    IF j < base THEN <<BaseDigit(j, upper)>>
    ELSE Append(Based(j \div base, base, upper), BaseDigit(j % base, upper))

\* the digits of the conversions d i u o x X at precision p (C's "%.<p>l<ch>"):
\* zero-padded to p digits, no digit at all for 0 at precision 0
IntDigits(j, p, ch) ==
    LET base == IF ch = "o" THEN 8 ELSE IF ch \in {"x", "X"} THEN 16 ELSE 10
        s    == IF j = 0 /\ p = 0 THEN <<>> ELSE Based(j, base, ch = "X")
    IN  Zeros(p - Len(s)) \o s

\* j rounded half-even to P significant digits: the P digits, the decimal
\* exponent of the first one, and whether j lay half-way between two such
\* numbers and was rounded down
RoundSig(j, P) ==
    LET s == Decimal(j)
        n == Len(s)
    IN  IF n <= P
        THEN [digits |-> s \o Zeros(P - n), exponent |-> n - 1, tie |-> FALSE]
        ELSE LET head   == IntOf(Slice(s, 1, P))
                 rest0  == \A k \in (P + 2)..n : s[k] = "0"
                 first  == DigitValue(s[P + 1])
                 up     == \/ first > 5
                           \/ first = 5 /\ ~rest0
                           \/ first = 5 /\ rest0 /\ head % 2 = 1
                 hs     == Decimal(IF up THEN head + 1 ELSE head)
             IN  IF Len(hs) > P
                 THEN [digits |-> Slice(hs, 1, P), exponent |-> n, tie |-> FALSE]
                 ELSE [digits |-> hs, exponent |-> n - 1,
                       tie |-> first = 5 /\ rest0 /\ ~up]

\* the exponent part "e+XX"
ExpStr(X, E) == <<E, "+">> \o (IF X < 10 THEN <<"0">> ELSE <<>>) \o Decimal(X)

RECURSIVE StripZeros(_)
StripZeros(s) ==
    IF Len(s) > 0 /\ s[Len(s)] = "0" THEN StripZeros(SubSeq(s, 1, Len(s) - 1))
    ELSE s

\* the rounded value r of P significant digits in exponent notation: the
\* first digit, the fraction (without its trailing zeros when strip, which a
\* half-way value rounded down keeps all the same), the exponent part
Scientific(r, P, strip, alt, E) ==
    LET frac == IF strip /\ ~r.tie THEN StripZeros(Slice(r.digits, 2, P))
                ELSE Slice(r.digits, 2, P)
    IN  <<r.digits[1]>>
        \o (IF alt \/ frac # <<>> THEN <<".">> \o frac ELSE <<>>)
        \o ExpStr(r.exponent, E)

\* the conversions e and E of float(j): prec + 1 significant digits, the sum
\* taken in a C int
FormatE(j, prec, alt, E, wraps) ==
    IF prec < INT_MAX
    THEN Scientific(RoundSig(j, prec + 1), prec + 1, FALSE, alt, E)
    ELSE IF wraps THEN Scientific(RoundSig(j, 1), 1, FALSE, alt, E)
    ELSE LongString

\* the conversions f and F of float(j)
FormatF(j, prec, alt) ==
    Decimal(j) \o (IF prec > 0 THEN <<".">> \o Zeros(prec)
                   ELSE IF alt THEN <<".">> ELSE <<>>)

\* float(j), whose rounding to P significant digits is r, in the shorter of
\* the fixed and the exponent notation
General(j, r, P, alt, E) ==
    IF r.exponent < P
    THEN Decimal(j)
         \o (IF alt THEN <<".">> \o Zeros(P - 1 - r.exponent) ELSE <<>>)
    ELSE Scientific(r, P, ~alt, alt, E)

\* the conversions g and G of float(j)
FormatG(j, prec, alt, E) ==
    General(j, RoundSig(j, IF prec = 0 THEN 1 ELSE prec),
            IF prec = 0 THEN 1 ELSE prec, alt, E)

Printable ==
    <<" ", "!", "\"", "#", "$", "%", "&", "'", "(", ")", "*", "+", ",", "-",
      ".", "/", "0", "1", "2", "3", "4", "5", "6", "7", "8", "9", ":", ";",
      "<", "=", ">", "?", "@", "A", "B", "C", "D", "E", "F", "G", "H", "I",
      "J", "K", "L", "M", "N", "O", "P", "Q", "R", "S", "T", "U", "V", "W",
      "X", "Y", "Z", "[", "\\", "]", "^", "_", "\\x60", "a", "b", "c", "d", "e",
      "f", "g", "h", "i", "j", "k", "l", "m", "n", "o", "p", "q", "r", "s",
      "t", "u", "v", "w", "x", "y", "z", "{", "|", "}", "~">>

\* chr(j) for 0 <= j <= 255; a character that cannot be written in a string
\* here (a control character, the grave accent, a byte above 126) is the
\* string of its Python escape: a backslash, "x" and two hexadecimal digits
Chr(j) ==
    IF j \in 32..126 THEN Printable[j - 31]
    ELSE CASE j = 9  -> "\t"
           [] j = 10 -> "\n"
           [] j = 12 -> "\f"
           [] j = 13 -> "\r"
           [] OTHER  -> "\\x" \o BaseDigit(j \div 16, FALSE) \o BaseDigit(j % 16, FALSE)

\* the text of one conversion before padding, as [body, prefix, numeric], or
\* [error]: the conversion "%" takes no argument, every other one takes j
\* (TypeError when j has been consumed) and then converts it
Convert(spec, j, wraps) ==
    LET ch   == spec.ch
        alt  == "#" \in spec.flags
        prec == IF spec.starP THEN j ELSE spec.prec
        pi   == IF prec < 0 THEN 1 ELSE prec
        pf   == IF prec < 0 THEN 6 ELSE prec
        ok(body, prefix, numeric) ==
            [error |-> <<>>, body |-> body, prefix |-> prefix, numeric |-> numeric]
    IN  IF ch = "%" THEN ok(<<"%">>, <<>>, FALSE)
        ELSE IF spec.used THEN [error |-> TypeError]
        ELSE IF ch \in {"s", "r"}
        THEN ok(IF prec >= 0 /\ Len(Decimal(j)) > prec
                THEN Slice(Decimal(j), 1, prec) ELSE Decimal(j),
                <<>>, FALSE)
        ELSE IF ch \in {"i", "d", "u", "o", "x", "X"}
        THEN IF FORMATBUFLEN - 3 <= pi THEN [error |-> OverflowError]
             ELSE LET s == IntDigits(j, pi, ch)
                  IN  ok(IF alt /\ ch = "o" /\ (s = <<>> \/ s[1] # "0")
                         THEN <<"0">> \o s ELSE s,
                         IF alt /\ ch \in {"x", "X"} THEN <<"0", ch>> ELSE <<>>,
                         TRUE)
        ELSE IF ch \in {"e", "E"} THEN ok(FormatE(j, pf, alt, ch, wraps), <<>>, TRUE)
        ELSE IF ch \in {"f", "F"} THEN ok(FormatF(j, pf, alt), <<>>, TRUE)
        ELSE IF ch \in {"g", "G"}
        THEN ok(FormatG(j, pf, alt, IF ch = "g" THEN "e" ELSE "E"), <<>>, TRUE)
        ELSE IF ch = "c"
        THEN IF j > 255 THEN [error |-> OverflowError]
             ELSE ok(<<Chr(j)>>, <<>>, FALSE)
        ELSE [error |-> ValueError]

\* the written width of the specifier is above INT_MAX
Wide(spec) == Exceeds(spec.width, Decimal(INT_MAX))

\* the conversion conv of specifier spec is a string of 2^31 characters or
\* more, before the padding or after it
Long(spec, conv) == conv.body = LongString \/ Wide(spec)

\* sign, padding to the width and justification of one conversion
Pad(spec, conv, j) ==
    LET width    == IF spec.starW THEN j ELSE IntOf(spec.width)
        signchar == IF conv.numeric /\ "+" \in spec.flags THEN <<"+">>
                    ELSE IF conv.numeric /\ " " \in spec.flags THEN <<" ">>
                    ELSE <<>>
        pad      == width - (Len(signchar) + Len(conv.prefix) + Len(conv.body))
    IN  IF Long(spec, conv) THEN LongString
        ELSE IF "-" \in spec.flags
        THEN signchar \o conv.prefix \o conv.body \o Spaces(pad)
        ELSE IF conv.numeric /\ "0" \in spec.flags
        THEN signchar \o conv.prefix \o Zeros(pad) \o conv.body
        ELSE Spaces(pad) \o signchar \o conv.prefix \o conv.body

\* the first position from i on that holds a "%"
RECURSIVE LiteralEnd(_, _)
LiteralEnd(s, i) == IF i <= Len(s) /\ s[i] # "%" THEN LiteralEnd(s, i + 1) ELSE i

\* the format string from position i on, read into its items in order: runs
\* of literal text, conversion specifiers, and the error the reading ends
\* with (at the end of the string, TypeError when no conversion has taken the
\* argument); none of this depends on the argument
RECURSIVE ParseFrom(_, _, _)
\* the specifier spec and what follows it: nothing when it is an error
AfterSpec(fmt, spec) ==
    IF spec.error # <<>> THEN <<spec>>
    ELSE <<spec>> \o ParseFrom(fmt, spec.next, spec.used \/ spec.ch # "%")

ParseFrom(fmt, i, used) ==
    IF i > Len(fmt)
    THEN (IF used THEN <<>> ELSE <<[error |-> TypeError]>>)
    ELSE IF fmt[i] # "%"
    THEN <<[error |-> <<>>, ch |-> "",
            text |-> Slice(fmt, i, LiteralEnd(fmt, i) - 1)]>>
         \o ParseFrom(fmt, LiteralEnd(fmt, i), used)
    ELSE AfterSpec(fmt, ParseSpec(fmt, i + 1, used))

\* text followed by the outcome of the rest of the format string
Then(text, rest) ==
    IF rest \in FormatErrors THEN rest
    ELSE IF rest = LongString \/ text = LongString THEN LongString
    ELSE text \o rest

\* the conversion conv of specifier spec followed by the outcome of the rest
\* of the format string: the error of the conversion comes first, then the
\* conversion and its padding, which run out of memory when a string of 2^31
\* characters does not fit
Emit(spec, conv, j, fits, rest) ==
    IF conv.error # <<>> THEN conv.error
    ELSE IF Long(spec, conv) /\ ~fits THEN MemoryError
    ELSE Then(Pad(spec, conv, j), rest)

\* the items from the k-th on applied to j, left to right: the formatted text,
\* or the first error met
RECURSIVE FormatItems(_, _, _, _, _)
FormatItems(items, k, j, fits, wraps) ==
    IF k > Len(items) THEN <<>>
    ELSE IF items[k].error # <<>> THEN items[k].error
    ELSE IF items[k].ch = ""
    THEN Then(items[k].text, FormatItems(items, k + 1, j, fits, wraps))
    ELSE Emit(items[k], Convert(items[k], j, wraps), j, fits,
              FormatItems(items, k + 1, j, fits, wraps))

\* the item is a conversion whose outcome the memory there is or the overflow
\* of the precision decides: one of a width above INT_MAX, or e or E of
\* precision INT_MAX (a precision "*" is the argument, which can be that)
Undecided(item) ==
    /\ item.error = <<>>
    /\ item.ch # ""
    /\ \/ Wide(item)
       \/ item.ch \in {"e", "E"} /\ (item.starP \/ item.prec = INT_MAX)

\* the pairs <<fits, wraps>> the formatting of the items can tell apart: all
\* four where an item is undecided, and one where none is, the formatting
\* being the same under all four
Outcomes(items) ==
    IF \E k \in DOMAIN items : Undecided(items[k])
    THEN BOOLEAN \X BOOLEAN ELSE {<<TRUE, TRUE>>}

\* fmt % j
PyFormat(fmt, j, fits, wraps) ==
    FormatItems(ParseFrom(fmt, 1, FALSE), 1, j, fits, wraps)

(***************************************************************************)
(* find_matching_images                                                    *)
(***************************************************************************)
\* the directories that exist; any other directory cannot be listed
ExistingDirs == {<<".">>, <<"d">>}

\* the directory parts an input path is given with: none, "d/" and "x/"
DirPrefixes == {<<>>, <<"d", "/">>, <<"x", "/">>}

OSError == {<<"OSError">>}

\* os.path.split: cut after the last "/", then strip the head's trailing
\* slashes unless the head is slashes only
RECURSIVE RStripSlash(_)
RStripSlash(s) ==
    IF Len(s) > 0 /\ s[Len(s)] = "/" THEN RStripSlash(SubSeq(s, 1, Len(s) - 1))
    ELSE s

PathSplit(p) ==
    LET i    == Max({0} \cup {k \in 1..Len(p) : p[k] = "/"})
        head == Slice(p, 1, i)
        tail == Slice(p, i + 1, Len(p))
    IN  [head |-> IF head # <<>> /\ (\E k \in 1..Len(head) : head[k] # "/")
                  THEN RStripSlash(head) ELSE head,
         tail |-> tail]

\* os.path.join(a, b)
PathJoin(a, b) ==
    IF Len(b) > 0 /\ b[1] = "/" THEN b
    ELSE IF a = <<>> \/ a[Len(a)] = "/" THEN a \o b
    ELSE a \o <<"/">> \o b

\* lines 85-87: the directory and base name of image_name
DirectoryOf(p) ==
    IF PathSplit(p).head = <<>> THEN <<".">> ELSE PathSplit(p).head

\* a listing that comes back empty for a directory that cannot be listed
listdirSwallow(d) == IF d \in DOMAIN fs THEN fs[d] ELSE {}

\* os.listdir(directory)
listdir(d) == IF d \in DOMAIN fs THEN fs[d] ELSE OSError

\* template.count("#")
CountHash(t) == Cardinality({i \in 1..Len(t) : t[i] = "#"})

\* lines 92-95: pfx + "%%0%dd" % len_digits + sfx
template_str(t) ==
    LET hashes     == {i \in 1..Len(t) : t[i] = "#"}
        len_digits == CountHash(t)
        pfx        == Slice(t, 1, Min(hashes) - 1)
        sfx        == Slice(t, Max(hashes) + 1, Len(t))
    IN  pfx \o <<"%", "0">> \o Decimal(len_digits) \o <<"d">> \o sfx

\* line 102: template_str % j, a name or the exception the formatting raises
Candidate(t, j, fits, wraps) == PyFormat(template_str(t), j, fits, wraps)

\* the membership test against the directory as it is now
InListingLive(name) == name \in fs[directory]

\* line 102: ... in files_in_directory
InListing(name) == name \in files_in_directory

\* an append that takes every candidate
KeepAny(name) == TRUE

\* line 102: the condition under which candidate name is appended
Keep(name) == InListing(name)

\* the most digits d for which the list of the 10^d indices fits in memory
RangeDigitsInMemory == 8

\* line 101: range(0, 10 ** len_digits) is a list, built in full before the
\* first candidate is formatted.  10^d exceeds LONG_MAX (2^63 - 1, which is
\* PY_SSIZE_T_MAX) from 19 digits on and range() raises OverflowError; below
\* that the list of 10^d integers has to fit in memory, which it is taken to
\* do up to RangeDigitsInMemory digits (a list of 10^9 integers takes tens of
\* gigabytes, one of 10^18 more than there are addresses).
RangeError(d) ==
    IF d >= Len(PY_SSIZE_T_MAX) THEN OverflowError
    ELSE IF d > RangeDigitsInMemory THEN MemoryError
    ELSE <<>>

\* lines 99-103: j runs upwards over range(0, 10 ** len_digits) and the path
\* of each candidate that is kept is appended, so the list holds the kept
\* candidates' paths in increasing order of j; an exception raised by the
\* formatting of a candidate ends the loop and the call.  The format string
\* is built once, before the loop (line 95), and FormatItems(items, 1, j,
\* fits, wraps) is Candidate(t, j, fits, wraps).
Candidates(items, n, fits, wraps) ==
    {<<j, FormatItems(items, 1, j, fits, wraps)>> : j \in 0..(n - 1)}

\* the exception of the least j of the pairs in raised
FirstRaised(raised) == (CHOOSE p \in raised : \A q \in raised : p[1] <= q[1])[2]

\* the paths of the pairs in kept, in increasing order of j
Appended(kept) ==
    [n \in 1..Cardinality(kept) |->
        PathJoin(directory,
                 (CHOOSE p \in kept : Cardinality({q \in kept : q[1] <= p[1]}) = n)[2])]

LoopOutcome(names) ==
    IF \E p \in names : p[2] \in FormatErrors
    THEN FirstRaised({p \in names : p[2] \in FormatErrors})
    ELSE Appended({p \in names : Keep(p[2])})

ScanLoop(t, fits, wraps) ==
    IF RangeError(CountHash(t)) # <<>> THEN RangeError(CountHash(t))
    ELSE LoopOutcome(Candidates(ParseFrom(template_str(t), 1, FALSE),
                                Pow10(CountHash(t)), fits, wraps))

\* "if template:" of line 91
Truthy(t) == t # None /\ t # <<>>

\* what is no name of a directory entry: os.listdir never gives "." or ".."
NotListed == {<<".">>, <<".", ".">>}

\* the names a directory is populated from when base name f is looked up:
\* f itself and the files of indices 1..MaxIndex of its template, both as the
\* template's prefix, digits and suffix spell them and as line 102 does
Universe(f) ==
    IF FirstMatch(f) = 0 THEN {f} \ NotListed
    ELSE LET p == MatchedParts(f)
         IN  ({f}
              \cup {p.prefix \o Format0d(Len(p.digits), j) \o p.exten : j \in 1..MaxIndex}
              \cup ({Candidate(template_regex(f).template, 1, TRUE, w) : w \in BOOLEAN}
                       \ (FormatErrors \cup {LongString})))
             \ NotListed

\* the base names looked up: those over FindAlphabet, and more that have a
\* "#" of their own, a doubled "%", a conversion ahead of a doubled "%" that
\* formats the index and one that formats nothing, a newline, a "%" padded
\* to a width of 2^31, a conversion e of precision INT_MAX, and indices of 9
\* and of 19 digits
FindNames ==
    FileNames(FindAlphabet, MaxNameLen)
        \cup {<<"#", ".", "1">>, <<"%", "%", ".", "1">>,
              <<"%", "d", "%", ".", "1">>, <<"\n", ".", "1">>,
              <<"%", ".", "0", "s", "%", ".", "1">>,
              <<"%", "2", "1", "4", "7", "4", "8", "3", "6", "4", "8", "%", ".", "1">>,
              <<"%", ".">> \o Decimal(INT_MAX) \o <<"e", "%", ".", "1">>,
              <<"a", ".">> \o Zeros(8) \o <<"1">>,
              <<"a", ".">> \o Zeros(18) \o <<"1">>}

InitFind ==
    /\ pc = "call"
    /\ \E pre \in DirPrefixes, f \in FindNames :
          /\ image_name = pre \o f
          /\ \E entries \in SUBSET Universe(f) :
                fs = [d \in ExistingDirs |->
                        IF d = DirectoryOf(pre \o f) THEN entries ELSE {}]
    /\ directory = Idle /\ filename = Idle /\ result = Idle
    /\ files_in_directory = {} /\ matching_images = Idle
    /\ filenames = Idle /\ template = Idle /\ matched = Idle
    /\ listings = 0 /\ writes = 0
    /\ exception = NoException

\* lines 85-89
Begin ==
    /\ pc = "call"
    /\ directory' = DirectoryOf(image_name)
    /\ filename' = PathSplit(image_name).tail
    /\ result' = template_regex(PathSplit(image_name).tail)
    /\ pc' = IF Truthy(template_regex(PathSplit(image_name).tail).template)
             THEN "list" ELSE "else"
    /\ UNCHANGED <<filenames, template, matched, image_name,
                   files_in_directory, matching_images, fs, listings, writes, exception>>

\* line 97
ListDir ==
    /\ pc = "list"
    /\ listings' = listings + 1
    /\ IF listdir(directory) = OSError
       THEN /\ pc' = "error"
            /\ exception' = "OSError"
            /\ UNCHANGED files_in_directory
       ELSE /\ pc' = "scan"
            /\ files_in_directory' = listdir(directory)
            /\ UNCHANGED exception
    /\ UNCHANGED <<filename, result, filenames, template, matched, image_name,
                   directory, matching_images, fs, writes>>

\* lines 99-103 and 108
Scan ==
    /\ pc = "scan"
    /\ \E env \in Outcomes(ParseFrom(template_str(result.template), 1, FALSE)) :
       \E out \in {ScanLoop(result.template, env[1], env[2])} :
          IF out \in FormatErrors
          THEN /\ pc' = "error"
               /\ exception' = out[1]
               /\ UNCHANGED matching_images
          ELSE /\ pc' = "done"
               /\ matching_images' = out
               /\ UNCHANGED exception
    /\ UNCHANGED <<filename, result, filenames, template, matched, image_name,
                   directory, files_in_directory, fs, listings, writes>>

\* lines 105-108
NoTemplate ==
    /\ pc = "else"
    /\ matching_images' = <<image_name>>
    /\ pc' = "done"
    /\ UNCHANGED <<filename, result, filenames, template, matched, image_name,
                   directory, files_in_directory, fs, listings, writes, exception>>

\* another process creates a file in the directory while the call runs
WriterCreate ==
    /\ pc = "scan"
    /\ writes < MaxWrites
    /\ directory \in DOMAIN fs
    /\ \E name \in Universe(filename) \ fs[directory] :
          fs' = [fs EXCEPT ![directory] = @ \cup {name}]
    /\ writes' = writes + 1
    /\ UNCHANGED <<pc, filename, result, filenames, template, matched,
                   image_name, directory, files_in_directory, matching_images,
                   listings, exception>>

\* another process removes a file from the directory while the call runs
WriterRemove ==
    /\ pc = "scan"
    /\ writes < MaxWrites
    /\ directory \in DOMAIN fs
    /\ \E name \in fs[directory] :
          fs' = [fs EXCEPT ![directory] = @ \ {name}]
    /\ writes' = writes + 1
    /\ UNCHANGED <<pc, filename, result, filenames, template, matched,
                   image_name, directory, files_in_directory, matching_images,
                   listings, exception>>

NextFind == Begin \/ ListDir \/ Scan \/ NoTemplate \/ WriterCreate \/ WriterRemove

SpecFind == InitFind /\ [][NextFind]_vars

(***************************************************************************)
(* Properties of find_matching_images                                      *)
(***************************************************************************)
RangeOf(l) == {l[n] : n \in 1..Len(l)}

\* the call took the branch of line 91: a template was inferred
Templated == Truthy(result.template)

\* the file name of index j under the inferred template: its prefix, j
\* zero-padded to its digit count, its suffix
InstanceName(j) ==
    LET p == MatchedParts(filename)
    IN  p.prefix \o Format0d(Len(p.digits), j) \o p.exten

InstancePath(j) == PathJoin(directory, InstanceName(j))

\* the indices the inferred digit count can represent
IndexRange == 0..(Pow10(Len(MatchedParts(filename).digits)) - 1)

\* the path names a file of the file system
Exists(path) ==
    /\ DirectoryOf(path) \in DOMAIN fs
    /\ PathSplit(path).tail \in fs[DirectoryOf(path)]

\* C4: when a template is inferred and the directory is listed, the call
\* returns a result; the result holds the path of index j, for j in
\* 0..10^d-1, exactly when prefix + j zero-padded to d digits + suffix is in
\* the directory listing, and holds nothing else; also for base names whose
\* prefix or suffix contains "#".
C4_Membership ==
    /\ pc = "error" => exception = "OSError"
    /\ (pc = "done" /\ Templated) =>
          /\ \A j \in IndexRange :
                InstancePath(j) \in RangeOf(matching_images)
                    <=> InstanceName(j) \in files_in_directory
          /\ \A n \in 1..Len(matching_images) :
                \E j \in IndexRange : matching_images[n] = InstancePath(j)

\* C5: when a template with digit count d is inferred, the result lists the
\* template's files in strictly increasing index order, each index of
\* 0..10^d-1 at most once, at most 10^d entries, absent indices skipped and
\* present ones kept (indices 1, 2 and 4 present give those three in order).
C5_AscendingOrder ==
    (pc = "done" /\ Templated) =>
        /\ Len(matching_images) <= Pow10(Len(MatchedParts(filename).digits))
        /\ \A n \in 1..Len(matching_images) :
              \E j \in IndexRange : matching_images[n] = InstancePath(j)
        /\ \A n, m \in 1..Len(matching_images) :
              n < m => \E j, k \in IndexRange :
                          /\ j < k
                          /\ matching_images[n] = InstancePath(j)
                          /\ matching_images[m] = InstancePath(k)
        /\ \A j \in IndexRange :
              InstanceName(j) \in files_in_directory
                  => InstancePath(j) \in RangeOf(matching_images)

\* C6 as stated: template or not, every returned path names a file that
\* exists (in the file system, or in the listing the call took of it).
C6_AllExist ==
    pc = "done" =>
        \A n \in 1..Len(matching_images) :
            \/ Exists(matching_images[n])
            \/ \E name \in files_in_directory :
                  matching_images[n] = PathJoin(directory, name)

\* C6 amended: when a template is inferred, every returned path names an
\* entry of the listing taken of the directory during the call; when none is
\* inferred, the result is the input path alone, unchanged, whether or not
\* such a file exists.
C6_ListedOrPassedThrough ==
    pc = "done" =>
        IF Templated
        THEN \A n \in 1..Len(matching_images) :
                \E name \in files_in_directory :
                    matching_images[n] = PathJoin(directory, name)
        ELSE matching_images = <<image_name>>

\* a template is inferred; of the files of indices 1 and 2 the listing holds
\* the second only, and it alone is returned
C6_Witness ==
    /\ pc = "done"
    /\ Templated
    /\ InstanceName(1) \notin files_in_directory
    /\ InstanceName(2) \in files_in_directory
    /\ matching_images = <<InstancePath(2)>>

\* C7 as stated: with a directory that cannot be listed the call never
\* returns a list, whether or not the base name has a template.
C7_NeverReturnsWithoutDirectory ==
    pc = "done" => DirectoryOf(image_name) \in DOMAIN fs

\* C7 amended: when a template is inferred and the directory cannot be
\* listed, the call ends in the file system error (and in no other) and
\* returns no list; when no template is inferred the directory is never
\* listed and the call returns the input path alone.
C7_ErrorWhenTemplated ==
    /\ (pc \in {"scan", "done"} /\ Templated) => directory \in DOMAIN fs
    /\ pc = "error" =>
          /\ Templated
          /\ exception = "OSError" <=> directory \notin DOMAIN fs
          /\ matching_images = Idle
    /\ (pc = "done" /\ ~Templated) =>
          /\ listings = 0
          /\ matching_images = <<image_name>>

\* a templated name in a directory that does not exist: the call has failed
C7_Witness ==
    /\ pc = "error"
    /\ exception = "OSError"
    /\ Templated
    /\ directory = <<"x">>
    /\ listings = 1
    /\ matching_images = Idle

\* the name is the one line 102 makes of some index of the range, whatever
\* the memory there is and the outcome of the overflow
IsCandidate(name) ==
    LET items == ParseFrom(template_str(result.template), 1, FALSE)
    IN  \A env \in Outcomes(items) :
            \E j \in 0..(Pow10(CountHash(result.template)) - 1) :
                name = FormatItems(items, 1, j, env[1], env[2])

\* C10: a call that infers a template lists the directory once, before it
\* tests any candidate, and computes the result from that listing alone: a
\* file created after the listing is not in the result, a candidate removed
\* after the listing still is.
C10_SnapshotIsolation ==
    /\ (pc = "scan" \/ (pc = "done" /\ Templated)) => listings = 1
    /\ (pc = "done" /\ Templated) =>
          /\ \A name \in fs[directory] \ files_in_directory :
                PathJoin(directory, name) \notin RangeOf(matching_images)
          /\ \A name \in files_in_directory \ fs[directory] :
                IsCandidate(name)
                => PathJoin(directory, name) \in RangeOf(matching_images)

\* after the listing one file of the sequence was created and another was
\* removed: the first is not returned, the second is
C10_Witness ==
    /\ pc = "done"
    /\ Templated
    /\ \E j \in 1..MaxIndex :
          /\ InstanceName(j) \in fs[directory] \ files_in_directory
          /\ InstancePath(j) \notin RangeOf(matching_images)
    /\ \E j \in 1..MaxIndex :
          /\ InstanceName(j) \in files_in_directory \ fs[directory]
          /\ InstancePath(j) \in RangeOf(matching_images)

(***************************************************************************)
(* Properties of template_regex                                            *)
(***************************************************************************)
\* what pattern j alone makes of f (None when it does not match)
HeuristicResult(j, f) ==
    IF patterns(j, Reverse(f)) = NoMatch
    THEN [template |-> None, index |-> 0]
    ELSE LET p == Parts(j, patterns(j, Reverse(f)))
         IN  [template |-> p.prefix \o Hashes(Len(p.digits)) \o p.exten,
              index    |-> IntOf(p.digits)]

HeuristicMatches(j, f) == patterns(j, Reverse(f)) # NoMatch

\* number of digit characters f ends with
TrailingDigits(f) == Max({n \in 0..Len(f) : AllDigits(f, Len(f) - n + 1, Len(f))})

\* f ends with "." followed by one or more digits
EndsDotDigits(f) ==
    /\ TrailingDigits(f) >= 1
    /\ Len(f) > TrailingDigits(f)
    /\ f[Len(f) - TrailingDigits(f)] = "."

\* C1: the three heuristics are tried in the order bare numeric suffix,
\* underscore-delimited, generic, and the result is the one of the first that
\* matches: a name ending in "." and digits gets the prefix up to and
\* including that ".", an empty suffix and the trailing digits as index, even
\* when heuristic 2 or 3 matches too; heuristic 3 decides only when neither 1
\* nor 2 matches; (None, 0) when none matches.
C1_FirstHeuristicWins ==
    pc = "inferred" =>
        /\ EndsDotDigits(filename) =>
              LET n == TrailingDigits(filename)
              IN  /\ result.template =
                        Slice(filename, 1, Len(filename) - n) \o Hashes(n)
                  /\ result.index =
                        IntOf(Slice(filename, Len(filename) - n + 1, Len(filename)))
        /\ \A j \in 1..3 :
              (HeuristicMatches(j, filename)
                 /\ \A i \in 1..(j - 1) : ~HeuristicMatches(i, filename))
              => result = HeuristicResult(j, filename)
        /\ (\A j \in 1..3 : ~HeuristicMatches(j, filename))
              => result = [template |-> None, index |-> 0]

\* the maximal digit runs of f, as <<first, last>> positions
DigitRuns(f) ==
    {<<s, e>> \in (1..Len(f)) \X (1..Len(f)) :
        /\ s <= e
        /\ AllDigits(f, s, e)
        /\ (s = 1 \/ f[s - 1] \notin Digits)
        /\ (e = Len(f) \/ f[e + 1] \notin Digits)}

\* the digit runs that have the literal separators heuristic j asks for
AdmissibleRuns(j, f) ==
    CASE j = 1 -> {r \in DigitRuns(f) : r[2] = Len(f) /\ r[1] > 1 /\ f[r[1] - 1] = "."}
      [] j = 2 -> {r \in DigitRuns(f) : /\ r[2] < Len(f) /\ f[r[2] + 1] = "."
                                        /\ r[1] > 1 /\ f[r[1] - 1] = "_"}
      [] j = 3 -> {r \in DigitRuns(f) : r[2] < Len(f) /\ f[r[2] + 1] = "."}

\* position in f of the first digit the index was read from: the digits
\* stand just before the suffix, which is the end of f
BoundStart(f) ==
    Len(f) - Len(MatchedParts(f).exten) - Len(MatchedParts(f).digits) + 1

\* C2: of the digit runs that satisfy the winning heuristic's separators, the
\* index is bound to the last one in the file name (the one next to the "."
\* nearest the end, leaving the shortest suffix).
C2_BindsLastRun ==
    (pc = "inferred" /\ result.template # None) =>
        BoundStart(filename) =
            Max({r[1] : r \in AdmissibleRuns(FirstMatch(filename), filename)})

\* C3: the placeholders of an inferred template are as many as the digits of
\* the name at the matched position (the digit_count characters before the
\* suffix) and stand between the prefix and the suffix, the index is below
\* 10^digit_count, and the template rendered with the index zero-padded to
\* digit_count digits is a name from which the same template and index are
\* inferred.
C3_RoundTrip ==
    (pc = "inferred" /\ result.template # None) =>
        LET p   == MatchedParts(filename)
            d   == Len(p.digits)
            t   == result.template
            g   == p.prefix \o Format0d(d, result.index) \o p.exten
            end == Len(filename) - Len(p.exten)
        IN  /\ d >= 1
            /\ Len(t) = Len(p.prefix) + d + Len(p.exten)
            /\ Slice(t, 1, Len(p.prefix)) = p.prefix
            /\ Slice(t, Len(p.prefix) + d + 1, Len(t)) = p.exten
            /\ Slice(filename, end + 1, Len(filename)) = p.exten
            /\ end >= d
            /\ \A i \in 1..d :
                  /\ t[Len(p.prefix) + i] = "#"
                  /\ filename[end - d + i] \in Digits
                  /\ filename[end - d + i] = p.digits[i]
            /\ result.index < Pow10(d)
            /\ template_regex(g) = result

\* a name whose index has leading zeros: two or more digits, index 1
C3_Witness ==
    /\ pc = "inferred"
    /\ result.template # None
    /\ Len(MatchedParts(filename).digits) >= 2
    /\ MatchedParts(filename).digits[1] = "0"
    /\ result.index = 1
    /\ FirstMatch(filename) = 2

(***************************************************************************)
(* group_files_by_imageset                                                 *)
(***************************************************************************)
\* a template-less name entered with index 0 in place of None
TemplateEntryZero(f) ==
    LET t == template_regex(f)
    IN  IF t.template = None THEN <<f, 0>> ELSE <<t.template, t.index>>

\* lines 63-67: the pair appended to the list "template" for file name f
TemplateEntry(f) ==
    LET t == template_regex(f)
    IN  IF t.template = None THEN <<f, NoneIndex>> ELSE <<t.template, t.index>>

\* an append that leaves out a value the list already holds
AppendToGroupDedup(m, key, value) ==
    IF key \in DOMAIN m
    THEN IF \E i \in 1..Len(m[key]) : m[key][i] = value
         THEN m
         ELSE [m EXCEPT ![key] = Append(@, value)]
    ELSE [k \in DOMAIN m \cup {key} |-> IF k = key THEN <<value>> ELSE m[k]]

\* line 73: matched[key].append(value) on a defaultdict(list)
AppendToGroup(m, key, value) ==
    IF key \in DOMAIN m
    THEN [m EXCEPT ![key] = Append(@, value)]
    ELSE [k \in DOMAIN m \cup {key} |-> IF k = key THEN <<value>> ELSE m[k]]

\* lines 71-73: the loop over the first n pairs of ts
RECURSIVE MatchAll(_, _)
MatchAll(ts, n) ==
    IF n = 0 THEN [k \in {} |-> <<>>]
    ELSE AppendToGroup(MatchAll(ts, n - 1), ts[n][1], ts[n][2])

\* the names the lists to group are made of: those over GroupAlphabet, ".#",
\* which has no template and is the template string of ".0" and ".1", and a
\* name with a newline
GroupNames ==
    FileNames(GroupAlphabet, MaxGroupLen) \cup {<<".", "#">>, <<"\n", ".", "1">>}

RECURSIVE Lists(_, _)
Lists(S, n) ==
    IF n = 0 THEN {<<>>}
    ELSE LET shorter == Lists(S, n - 1)
         IN  shorter \cup {Append(l, x) : l \in shorter, x \in S}

InitGroup ==
    /\ pc = "group"
    /\ filenames \in Lists(GroupNames, MaxList)
    /\ template = <<>>
    /\ matched = [k \in {} |-> <<>>]
    /\ filename = Idle /\ result = Idle
    /\ image_name = Idle /\ directory = Idle /\ files_in_directory = {}
    /\ matching_images = Idle /\ fs = Idle /\ listings = 0 /\ writes = 0
    /\ exception = NoException

\* lines 61-67
GroupTemplates ==
    /\ pc = "group"
    /\ template' = [i \in 1..Len(filenames) |-> TemplateEntry(filenames[i])]
    /\ pc' = "templated"
    /\ UNCHANGED <<filename, result, filenames, matched, image_name, directory,
                   files_in_directory, matching_images, fs, listings, writes, exception>>

\* lines 71-76
GroupMatch ==
    /\ pc = "templated"
    /\ matched' = MatchAll(template, Len(template))
    /\ pc' = "grouped"
    /\ UNCHANGED <<filename, result, filenames, template, image_name, directory,
                   files_in_directory, matching_images, fs, listings, writes, exception>>

NextGroup == GroupTemplates \/ GroupMatch

SpecGroup == InitGroup /\ [][NextGroup]_vars

(***************************************************************************)
(* Properties of group_files_by_imageset                                   *)
(***************************************************************************)
HasTemplate(f) == template_regex(f).template # None

\* the group key and the value each input file name stands for, and whether
\* it has a template, by position in the input list
InputKeys ==
    [i \in 1..Len(filenames) |->
        LET t == template_regex(filenames[i])
        IN  IF t.template # None THEN t.template ELSE filenames[i]]

InputValues ==
    [i \in 1..Len(filenames) |->
        LET t == template_regex(filenames[i])
        IN  IF t.template # None THEN t.index ELSE NoneIndex]

InputTemplated == [i \in 1..Len(filenames) |-> HasTemplate(filenames[i])]

\* positions of the input list that belong to group key
PositionsOf(keys, key) == {i \in 1..Len(keys) : keys[i] = key}

\* the n-th of a set of positions, in input order
NthPosition(positions, n) ==
    CHOOSE i \in positions : Cardinality({j \in positions : j <= i}) = n

RECURSIVE SumLen(_, _)
SumLen(m, keys) ==
    IF keys = {} THEN 0
    ELSE LET k == CHOOSE x \in keys : TRUE
         IN  Len(m[k]) + SumLen(m, keys \ {k})

NoneCount(l) == Cardinality({i \in 1..Len(l) : l[i] = NoneIndex})

\* C8 as stated: a group keyed by a template string holds only integers, and
\* a group keyed by a file name that has no template holds a single None.
C8_GroupShape ==
    pc = "grouped" =>
        LET keys == InputKeys
            has  == InputTemplated
        IN  \A key \in DOMAIN matched :
                /\ (\E i \in 1..Len(filenames) : has[i] /\ keys[i] = key)
                   => NoneCount(matched[key]) = 0
                /\ (\E i \in 1..Len(filenames) : ~has[i] /\ filenames[i] = key)
                   => matched[key] = <<NoneIndex>>

\* C8 amended: every value is an integer index or None; a group holds one None
\* for each occurrence in the input of a template-less file name equal to its
\* key and no other None, so a group whose key is no template-less input name
\* holds integers only, and a group keyed by a template-less name that occurs
\* once and is no other input's template string is the single None.
C8_GroupShapeAmended ==
    pc = "grouped" =>
        LET keys == InputKeys
            has  == InputTemplated
        IN  \A key \in DOMAIN matched :
                /\ \A n \in 1..Len(matched[key]) :
                      matched[key][n] = NoneIndex \/ matched[key][n] >= 0
                /\ NoneCount(matched[key]) =
                      Cardinality({i \in 1..Len(filenames) :
                                     ~has[i] /\ filenames[i] = key})
                /\ (\E i \in 1..Len(filenames) :
                      PositionsOf(keys, key) = {i} /\ ~has[i])
                   => matched[key] = <<NoneIndex>>

\* a template-less name given twice, or a template-less name that is the
\* other input's template string
C8_Witness ==
    /\ pc = "grouped"
    /\ \E key \in DOMAIN matched :
          \/ matched[key] = <<NoneIndex, NoneIndex>>
          \/ matched[key] = <<1, NoneIndex>>

\* C9: each input file name, duplicates included, puts exactly one entry in
\* exactly one group: the group lengths add up to the length of the input,
\* the keys are those of the inputs, and each group lists the values of its
\* inputs in input order, neither sorted nor deduplicated.
C9_GroupingComplete ==
    pc = "grouped" =>
        LET keys   == InputKeys
            values == InputValues
        IN  /\ DOMAIN matched = {keys[i] : i \in 1..Len(filenames)}
            /\ SumLen(matched, DOMAIN matched) = Len(filenames)
            /\ \A key \in DOMAIN matched :
                  LET positions == PositionsOf(keys, key)
                  IN  /\ Len(matched[key]) = Cardinality(positions)
                      /\ \A n \in 1..Len(matched[key]) :
                            matched[key][n] = values[NthPosition(positions, n)]

\* two inputs of one template given in decreasing index order
C9_Witness ==
    /\ pc = "grouped"
    /\ Len(filenames) = 2
    /\ HasTemplate(filenames[1])
    /\ \E key \in DOMAIN matched : matched[key] = <<1, 0>>

====
